---- MODULE Spec2Model ----
(***************************************************************************)
(* Model of src/src/supervisor.rs: the actor Supervisor of actix.          *)
(*                                                                         *)
(* The supervisor is a future.  Its poll() is modelled step by step: pc is *)
(* the position inside poll() ("idle" = suspended, waiting to be polled    *)
(* again).  Steps on the supervisor's own thread that nothing can          *)
(* interleave with are taken together; cross-thread producers (sync        *)
(* handles) act between any two steps, same-thread producers (unsync       *)
(* handles) only while the supervisor task is suspended.                   *)
(*                                                                         *)
(* Context, Envelope and the two queues are collaborators whose code is    *)
(* not part of supervisor.rs.  They are modelled by their contract: what   *)
(* a context's poll() returns, and what a handler does to its context, is  *)
(* a nondeterministic input.                                               *)
(***************************************************************************)
EXTENDS Naturals, Sequences, FiniteSets, TLC

\* Bounds of the model.
MaxMsgs == 2          \* messages ever sent
MaxRestarts == 2      \* restarts ever performed
MaxHandles == 2       \* live producers per channel

\* The sync channel made by sync::unbounded() in start / start_in.
SupChan == 1
\* Channel identities: SupChan, and one that is not the supervisor's.
Chans == {1, 2}

\* What the factory f returns: an actor no message has been applied to.
Factory == <<>>

NotReady == "NotReady"
Ready == "Ready"
Err == "Err"
Terminal == {Ready, Err}

\* What user code run with the context at hand (a handler, the restarting
\* hook) may do to the context: ask it to stop, make it wait on a future.
Effects == [stop : BOOLEAN, wait : BOOLEAN]
NoEffect == [stop |-> FALSE, wait |-> FALSE]

VARIABLES
    caller,        \* position of the code calling start / start_in
    result,        \* what start / start_in returned
    arbiter,       \* the target Arbiter's address reports connected
    closure,       \* the Execute closure of start_in: none, scheduled, ran
    pc,            \* position of the supervisor inside poll()
    ctx,           \* Supervisor.ctx: the context and the actor it owns
    addr,          \* Supervisor.addr: the context generation it is bound to
    sync_msgs,     \* Supervisor.sync_msgs: the channel the receiver reads
    unsync_q,      \* items queued in Supervisor.unsync_msgs
    sync_q,        \* items queued in each sync channel
    unsyncSenders, \* live producers of unsync_msgs
    syncSenders,   \* live producers of each sync channel
    nextId,        \* identity of the next message sent
    not_ready,     \* the local not_ready of poll()
    factoryCalls,  \* times the factory f was called
    applied,       \* history: every item applied, in order
    lastPoll,      \* history: what the last ctx.poll() returned
    oldU, oldS,    \* history: queued items that were there when poll() began
    preU, preS,    \* history: queued items that were there at the last restart
    cut            \* history: at some time every producer had been dropped

vars == <<caller, result, arbiter, closure, pc, ctx, addr, sync_msgs, unsync_q,
          sync_q, unsyncSenders, syncSenders, nextId, not_ready, factoryCalls,
          applied, lastPoll, oldU, oldS, preU, preS, cut>>

hist == <<applied, lastPoll, oldU, oldS, preU, preS>>

Dec(n) == IF n > 0 THEN n - 1 ELSE 0

----------------------------------------------------------------------------
\* Context (collaborator).

\* Context::new(None) followed by set_actor(act).
Context_new(gen, act) ==
    [gen |-> gen, act |-> act, alive |-> TRUE, waiting |-> FALSE]

\* ctx.stop(): the context no longer reports alive.
ctx_stop(c) == [c EXCEPT !.alive = FALSE]

\* User code e acting on context c.
ctx_effect(c, e) ==
    [c EXCEPT !.alive = IF e.stop THEN FALSE ELSE @,
              !.waiting = IF e.wait THEN TRUE ELSE @]

\* env.handle(act, ctx): the message is applied to the actor, and the handler
\* acts on the context.
env_handle(c, id, e) == ctx_effect([c EXCEPT !.act = Append(@, id)], e)

NoCtx == [gen |-> 0, act |-> Factory, alive |-> FALSE, waiting |-> FALSE]

----------------------------------------------------------------------------
\* Supervisor.

\* A producer of one of the supervisor's two channels is alive.
AnyProducer == unsyncSenders > 0 \/ syncSenders[SupChan] > 0

\* Supervisor::connected.  (connected_and: the faulty variant that asks for a
\* producer on both channels.)
connected_and == unsyncSenders > 0 /\ syncSenders[sync_msgs] > 0
connected == unsyncSenders > 0 \/ syncSenders[sync_msgs] > 0

\* Supervisor::restart, with e what the actor's restarting hook does.
\* (restart_factory: the faulty variant that builds a new actor.)
restart_factory(e) ==
    /\ ctx' = ctx_effect(Context_new(ctx.gen + 1, Factory), e)
    /\ addr' = ctx.gen + 1
    /\ factoryCalls' = factoryCalls + 1
restart(e) ==
    /\ ctx' = ctx_effect(Context_new(ctx.gen + 1, ctx.act), e)
    /\ addr' = ctx.gen + 1
    /\ factoryCalls' = factoryCalls

\* What is left of a queue once poll() on it returned Ready(Some(msg)).
\* (peeked: the faulty variant that leaves the item in the queue.)
peeked(q) == q
popped(q) == Tail(q)

\* The channel of the sender handed out for an Upgrade:
\* self.sync_msgs.sender().  (upgrade_fresh: the faulty variant that hands
\* out a sender of another channel.)
upgrade_fresh == CHOOSE c \in Chans : c # sync_msgs
upgrade_sender == sync_msgs

\* The mailbox poll() drains first once the context is still running and not
\* waiting: the loop over unsync_msgs comes before the one over sync_msgs.
\* (first_drain_sync: the faulty variant that drains sync_msgs first.)
first_drain_sync == "sync"
first_drain == "unsync"

\* Supervisor::start_in: what the second addr.connected() makes it return.
\* (recheck_skipped: the faulty variant that returns the handle unchecked.)
recheck_skipped == "some"
recheck_result == IF arbiter THEN "some" ELSE "nothing"

\* Supervisor::start_in: the live senders of the sync channel once start_in
\* has returned res; on None the only sender, tx, is dropped.
\* (tx_kept: the faulty variant in which tx outlives a None.)
tx_kept(res) == syncSenders[SupChan]
tx_after_recheck(res) == IF res = "some" THEN syncSenders[SupChan] ELSE 0

\* poll(), top of 'outer: ctx.stop() when no producer is left.
\* (never_stopped: the faulty variant without the test.)
never_stopped(c) == c
stop_if_disconnected(c) == IF ~connected THEN ctx_stop(c) ELSE c

\* match ctx.poll(): the outcomes taken by the arm that restarts or
\* completes; any other terminal outcome would leave poll() as an error.
\* (absorbed_ok: the faulty variant that lets Err(_) through.)
absorbed_ok(out) == out = Ready
absorbed(out) == out \in {Ready, Err}

\* match ctx.poll(), arm NotReady: return NotReady if the context waits,
\* else go on to the mailboxes.
\* (after_not_ready_blind: the faulty variant without the waiting test;
\*  after_not_ready_late: the one that skips it in the pass after a restart.)
after_not_ready_blind(c) == first_drain
after_not_ready_late(c) ==
    IF c.waiting /\ lastPoll \notin {Ready, Err} THEN "idle" ELSE first_drain
after_not_ready(c) == IF c.waiting THEN "idle" ELSE first_drain

\* After an unsync item: where poll() goes on.
\* (after_unsync_blind: the faulty variant without the is_alive test.)
after_unsync_blind(c) == IF c.waiting THEN "idle" ELSE "unsync"
after_unsync_item(c) ==
    IF ~c.alive THEN "top" ELSE IF c.waiting THEN "idle" ELSE "unsync"

Entry(id, src, kind, chan) ==
    [id |-> id, src |-> src, kind |-> kind, chan |-> chan]

----------------------------------------------------------------------------
Init ==
    /\ caller = "init"
    /\ result = "none"
    /\ arbiter = TRUE
    /\ closure = "none"
    /\ pc = "unborn"
    /\ ctx = NoCtx
    /\ addr = 0
    /\ sync_msgs = SupChan
    /\ unsync_q = <<>>
    /\ sync_q = [c \in Chans |-> <<>>]
    /\ unsyncSenders = 0
    /\ syncSenders = [c \in Chans |-> 0]
    /\ nextId = 1
    /\ not_ready = TRUE
    /\ factoryCalls = 0
    /\ applied = <<>>
    /\ lastPoll = "none"
    /\ oldU = 0 /\ oldS = 0 /\ preU = 0 /\ preS = 0
    /\ cut = FALSE

\* Supervisor::start: the actor is made by the factory, which is handed the
\* new context (f(&mut ctx)) and may stop it or make it wait; the supervisor
\* is spawned, the caller gets one unsync and one sync handle.
Start ==
    /\ caller = "init"
    /\ caller' = "done"
    /\ result' = "pair"
    /\ \E e \in Effects : ctx' = ctx_effect(Context_new(0, Factory), e)
    /\ factoryCalls' = factoryCalls + 1
    /\ addr' = 0
    /\ sync_msgs' = SupChan
    /\ unsyncSenders' = 1
    /\ syncSenders' = [syncSenders EXCEPT ![SupChan] = 1]
    /\ pc' = "idle"
    /\ UNCHANGED <<arbiter, closure, unsync_q, sync_q, nextId, not_ready, hist, cut>>

\* Supervisor::start_in up to the send of the Execute closure.
StartIn ==
    /\ caller = "init"
    /\ IF arbiter
       THEN /\ caller' = "recheck"
            /\ closure' = "scheduled"
            /\ sync_msgs' = SupChan
            /\ syncSenders' = [syncSenders EXCEPT ![SupChan] = 1]
            /\ UNCHANGED result
       ELSE /\ caller' = "done"
            /\ result' = "nothing"
            /\ UNCHANGED <<closure, sync_msgs, syncSenders>>
    /\ UNCHANGED <<arbiter, pc, ctx, addr, unsync_q, sync_q, unsyncSenders,
                   nextId, not_ready, factoryCalls, hist, cut>>

\* Supervisor::start_in: the second addr.connected().  On None the sender tx
\* is dropped.
StartInRecheck ==
    /\ caller = "recheck"
    /\ caller' = "done"
    /\ result' = recheck_result
    /\ syncSenders' = [syncSenders EXCEPT ![SupChan] = tx_after_recheck(result')]
    /\ UNCHANGED <<arbiter, closure, pc, ctx, addr, sync_msgs, unsync_q, sync_q,
                   unsyncSenders, nextId, not_ready, factoryCalls, hist>>
    /\ cut' = (cut \/ ~AnyProducer')

\* The closure of start_in runs on the target thread; the factory is handed
\* the new context as in start.
RunClosure ==
    /\ closure = "scheduled"
    /\ closure' = "ran"
    /\ \E e \in Effects : ctx' = ctx_effect(Context_new(0, Factory), e)
    /\ factoryCalls' = factoryCalls + 1
    /\ addr' = 0
    /\ unsyncSenders' = 0
    /\ pc' = "idle"
    /\ UNCHANGED <<caller, result, arbiter, sync_msgs, unsync_q, sync_q,
                   syncSenders, nextId, not_ready, hist, cut>>

\* The target arbiter goes away.
ArbiterDrop ==
    /\ arbiter
    /\ caller # "done"
    /\ arbiter' = FALSE
    /\ UNCHANGED <<caller, result, closure, pc, ctx, addr, sync_msgs, unsync_q,
                   sync_q, unsyncSenders, syncSenders, nextId, not_ready,
                   factoryCalls, hist, cut>>

----------------------------------------------------------------------------
\* Producers.

\* The caller holds its handles once start / start_in has returned them.
Holding == caller = "done" /\ pc # "completed"

\* Address::send / Address::upgrade on the supervisor's thread.
SendUnsync(kind) ==
    /\ Holding /\ pc = "idle"
    /\ unsyncSenders > 0
    /\ nextId <= MaxMsgs
    /\ unsync_q' = Append(unsync_q, [id |-> nextId, kind |-> kind])
    /\ nextId' = nextId + 1
    /\ UNCHANGED <<caller, result, arbiter, closure, pc, ctx, addr, sync_msgs,
                   sync_q, unsyncSenders, syncSenders, not_ready, factoryCalls,
                   hist, cut>>

CloneUnsync ==
    /\ Holding /\ pc = "idle"
    /\ unsyncSenders > 0 /\ unsyncSenders < MaxHandles
    /\ unsyncSenders' = unsyncSenders + 1
    /\ UNCHANGED <<caller, result, arbiter, closure, pc, ctx, addr, sync_msgs,
                   unsync_q, sync_q, syncSenders, nextId, not_ready,
                   factoryCalls, hist, cut>>

DropUnsync ==
    /\ Holding /\ pc = "idle"
    /\ unsyncSenders > 0
    /\ unsyncSenders' = unsyncSenders - 1
    /\ UNCHANGED <<caller, result, arbiter, closure, pc, ctx, addr, sync_msgs,
                   unsync_q, sync_q, syncSenders, nextId, not_ready,
                   factoryCalls, hist>>
    /\ cut' = (cut \/ ~AnyProducer')

\* SyncAddress::send through a sender of channel c, from any thread.
SendSync(c) ==
    /\ Holding
    /\ syncSenders[c] > 0
    /\ nextId <= MaxMsgs
    /\ sync_q' = [sync_q EXCEPT ![c] = Append(@, nextId)]
    /\ nextId' = nextId + 1
    /\ UNCHANGED <<caller, result, arbiter, closure, pc, ctx, addr, sync_msgs,
                   unsync_q, unsyncSenders, syncSenders, not_ready,
                   factoryCalls, hist, cut>>

CloneSync(c) ==
    /\ Holding
    /\ syncSenders[c] > 0 /\ syncSenders[c] < MaxHandles
    /\ syncSenders' = [syncSenders EXCEPT ![c] = @ + 1]
    /\ UNCHANGED <<caller, result, arbiter, closure, pc, ctx, addr, sync_msgs,
                   unsync_q, sync_q, unsyncSenders, nextId, not_ready,
                   factoryCalls, hist, cut>>

DropSync(c) ==
    /\ Holding
    /\ syncSenders[c] > 0
    /\ syncSenders' = [syncSenders EXCEPT ![c] = @ - 1]
    /\ UNCHANGED <<caller, result, arbiter, closure, pc, ctx, addr, sync_msgs,
                   unsync_q, sync_q, unsyncSenders, nextId, not_ready,
                   factoryCalls, hist>>
    /\ cut' = (cut \/ ~AnyProducer')

----------------------------------------------------------------------------
\* Supervisor::poll.

\* The executor polls the suspended supervisor.
Resume ==
    /\ pc = "idle"
    /\ pc' = "top"
    /\ oldU' = Len(unsync_q)
    /\ oldS' = Len(sync_q[sync_msgs])
    /\ UNCHANGED <<caller, result, arbiter, closure, ctx, addr, sync_msgs,
                   unsync_q, sync_q, unsyncSenders, syncSenders, nextId,
                   not_ready, factoryCalls, applied, lastPoll, preU, preS, cut>>

\* 'outer: if !self.connected() { self.ctx.stop() }
Top ==
    /\ pc = "top"
    /\ pc' = "poll"
    /\ ctx' = stop_if_disconnected(ctx)
    /\ UNCHANGED <<caller, result, arbiter, closure, addr, sync_msgs, unsync_q,
                   sync_q, unsyncSenders, syncSenders, nextId, not_ready,
                   factoryCalls, hist, cut>>

\* match ctx.poll(): still running (and waiting or not), or terminated.
\* not_ready and the history of this call of poll() end with the call.
PollCtx ==
    /\ pc = "poll"
    /\ \E out \in {NotReady, Ready, Err}, w \in BOOLEAN, e \in Effects :
         /\ lastPoll' = out
         /\ IF out = NotReady
            THEN /\ e = NoEffect
                 /\ ctx' = [ctx EXCEPT !.waiting = w]
                 /\ pc' = after_not_ready(ctx')
                 /\ oldU' = IF pc' = "idle" THEN 0 ELSE oldU
                 /\ oldS' = IF pc' = "idle" THEN 0 ELSE oldS
                 /\ UNCHANGED <<addr, factoryCalls, preU, preS>>
            ELSE /\ w = FALSE
                 /\ IF ~absorbed(out)
                    THEN /\ e = NoEffect
                         /\ pc' = "failed"
                         /\ UNCHANGED <<ctx, addr, factoryCalls, preU, preS,
                                        oldU, oldS>>
                    ELSE
                    IF ~connected
                    THEN /\ e = NoEffect
                         /\ pc' = "completed"
                         /\ oldU' = 0 /\ oldS' = 0
                         /\ UNCHANGED <<ctx, addr, factoryCalls, preU, preS>>
                    ELSE /\ ctx.gen < MaxRestarts
                         /\ restart(e)
                         /\ pc' = "top"
                         /\ preU' = Len(unsync_q)
                         /\ preS' = Len(sync_q[sync_msgs])
                         /\ UNCHANGED <<oldU, oldS>>
    /\ not_ready' = TRUE
    /\ UNCHANGED <<caller, result, arbiter, closure, sync_msgs, unsync_q, sync_q,
                   unsyncSenders, syncSenders, nextId, applied, cut>>

\* The first inner loop: one self.unsync_msgs.poll() and what follows it.
PopUnsync ==
    /\ pc = "unsync"
    /\ IF unsync_q = <<>>
       THEN /\ pc' = "sync"
            /\ UNCHANGED <<ctx, unsync_q, syncSenders, not_ready, applied,
                           oldU, oldS, preU>>
       ELSE LET msg == Head(unsync_q) IN
            /\ unsync_q' = popped(unsync_q)
            /\ preU' = Dec(preU)
            /\ IF msg.kind = "Upgrade"
               THEN \E kept \in BOOLEAN :
                      /\ kept => syncSenders[upgrade_sender] < MaxHandles
                      /\ syncSenders' =
                           IF kept
                           THEN [syncSenders EXCEPT ![upgrade_sender] = @ + 1]
                           ELSE syncSenders
                      /\ applied' = Append(applied,
                           Entry(msg.id, "unsync", "Upgrade", upgrade_sender))
                      /\ ctx' = ctx
               ELSE \E e \in Effects :
                      /\ ctx' = env_handle(ctx, msg.id, e)
                      /\ applied' = Append(applied,
                           Entry(msg.id, "unsync", "Envelope", 0))
                      /\ UNCHANGED syncSenders
            /\ pc' = after_unsync_item(ctx')
            /\ not_ready' = (pc' \in {"top", "idle"})
            /\ oldU' = IF pc' = "idle" THEN 0 ELSE Dec(oldU)
            /\ oldS' = IF pc' = "idle" THEN 0 ELSE oldS
    /\ UNCHANGED <<caller, result, arbiter, closure, addr, sync_msgs, sync_q,
                   unsyncSenders, nextId, factoryCalls, lastPoll, preS, cut>>

\* The second inner loop: the two checks, one self.sync_msgs.poll(), and the
\* test of not_ready when the loop is left.
PopSync ==
    /\ pc = "sync"
    /\ IF ~ctx.alive \/ ctx.waiting \/ sync_q[sync_msgs] = <<>>
       THEN /\ pc' = IF ~ctx.alive THEN "top"
                     ELSE IF ctx.waiting THEN "idle"
                     ELSE IF not_ready THEN "idle" ELSE "top"
            /\ not_ready' = TRUE
            /\ oldU' = IF pc' = "idle" THEN 0 ELSE oldU
            /\ oldS' = IF pc' = "idle" THEN 0 ELSE oldS
            /\ UNCHANGED <<ctx, sync_q, applied, preS>>
       ELSE LET id == Head(sync_q[sync_msgs]) IN
            \E e \in Effects :
              /\ sync_q' = [sync_q EXCEPT ![sync_msgs] = popped(@)]
              /\ not_ready' = FALSE
              /\ ctx' = env_handle(ctx, id, e)
              /\ applied' = Append(applied,
                   Entry(id, "sync", "Envelope", 0))
              /\ oldS' = Dec(oldS)
              /\ preS' = Dec(preS)
              /\ pc' = "sync"
              /\ UNCHANGED oldU
    /\ UNCHANGED <<caller, result, arbiter, closure, addr, sync_msgs, unsync_q,
                   unsyncSenders, syncSenders, nextId, factoryCalls, lastPoll,
                   preU, cut>>

SupStep == Resume \/ Top \/ PollCtx \/ PopUnsync \/ PopSync

Next ==
    \/ Start
    \/ StartIn
    \/ StartInRecheck
    \/ RunClosure
    \/ ArbiterDrop
    \/ \E k \in {"Envelope", "Upgrade"} : SendUnsync(k)
    \/ CloneUnsync
    \/ DropUnsync
    \/ \E c \in Chans : SendSync(c)
    \/ \E c \in Chans : CloneSync(c)
    \/ \E c \in Chans : DropSync(c)
    \/ Resume
    \/ Top
    \/ PollCtx
    \/ PopUnsync
    \/ PopSync

Spec == Init /\ [][Next]_vars

\* The executor keeps polling the supervisor and the steps of poll() follow
\* each other; a context that was asked to stop reports a terminal state
\* after finitely many polls.
LiveSpec ==
    /\ Init /\ [][Next]_vars
    /\ WF_vars(SupStep)
    /\ SF_vars(PollCtx /\ ~ctx.alive /\ lastPoll' \in Terminal)

\* The executor keeps running a poll() it has entered; nothing is assumed of
\* the context.
PollSpec ==
    /\ Init /\ [][Next]_vars
    /\ WF_vars(SupStep)

----------------------------------------------------------------------------
\* Claims.

\* A step of PollCtx that performs Supervisor::restart.
Restarts == pc = "poll" /\ ctx'.gen # ctx.gen
\* A step in which poll() returns Ready(()).
Completes == pc # "completed" /\ pc' = "completed"
\* A step that applies an item (an envelope handled, an Upgrade answered).
Applies == Len(applied') > Len(applied)
LastApplied == applied[Len(applied)]

\* C1: every restart installs in the new context exactly the actor the old
\* context held, with every mutation applied messages made to it, and the
\* factory is called once, at construction, and by no restart.
C1_RestartPreservesActor ==
    /\ [][Restarts => ctx'.act = ctx.act /\ factoryCalls' = factoryCalls]_vars
    /\ [](pc # "unborn" => factoryCalls = 1)

\* A restart has just been performed on an actor that messages had mutated.
C1_Witness ==
    /\ pc = "top" /\ lastPoll \in Terminal /\ ctx.gen > 0
    /\ ctx.act # Factory /\ Len(applied) > 0

\* C2: every message that was queued, unapplied, when a restart was performed
\* is applied afterwards: the supervisor does not complete while one of them
\* is still in its mailbox.
C2_MailboxSurvivesRestart ==
    pc = "completed" => preU = 0 /\ preS = 0

\* C3: of the unsync and sync messages that were queued when poll() began, no
\* sync message is applied while an unsync one is still queued.
C3_DrainPriority ==
    [][(Applies /\ applied'[Len(applied')].src = "sync" /\ oldS > 0)
         => oldU = 0]_vars

\* An unsync message was applied in this pass and a sync message that was
\* queued when poll() began is the next item to be applied.
C3_Witness ==
    /\ pc = "sync" /\ ~not_ready /\ oldS > 0 /\ sync_q[sync_msgs] # <<>>
    /\ ctx.alive /\ ~ctx.waiting
    /\ Len(applied) > 0 /\ LastApplied.src = "unsync"

\* C4: no message is applied more than once.
C4_AtMostOnce ==
    \A i, j \in 1..Len(applied) : applied[i].id = applied[j].id => i = j

\* A message was applied, its context terminated and was replaced by a
\* restart, and another message is still queued for the new context.
C4_Witness ==
    /\ pc = "top" /\ lastPoll \in Terminal /\ ctx.gen > 0
    /\ Len(applied) > 0
    /\ unsync_q # <<>> \/ sync_q[sync_msgs] # <<>>

\* C5: the supervisor never completes while a message is still queued in its
\* unsync or sync mailbox.
C5_NoEnqueuedWorkLost ==
    pc = "completed" => unsync_q = <<>> /\ sync_q[sync_msgs] = <<>>

\* C6: once every producer handle has been dropped the supervisor performs no
\* restart, and the first terminal report of ctx.poll() completes it.
C6_TerminationIsFinal ==
    [][cut => /\ ~Restarts
              /\ (pc = "poll" /\ pc' # "poll" /\ lastPoll' \in Terminal)
                   => pc' = "completed"]_vars

\* C7: the supervisor completes only in a step in which ctx.poll() reported a
\* terminal state and no producer is alive, and restarts only in a step in
\* which ctx.poll() reported a terminal state and a producer is alive.
C7_DecisionRule ==
    [][/\ Completes =>
            pc = "poll" /\ lastPoll' \in Terminal /\ ~AnyProducer
       /\ ctx'.gen # ctx.gen =>
            pc = "poll" /\ lastPoll' \in Terminal /\ AnyProducer]_vars

\* The supervisor has restarted its actor and, later, completed.
C7_Witness == pc = "completed" /\ ctx.gen > 0 /\ lastPoll \in Terminal

\* C8: once every producer handle is dropped, the supervisor eventually
\* completes (or the restarts the model allows are used up).
C8_ShutdownLiveness ==
    (pc \notin {"unborn", "completed"} /\ ~AnyProducer)
        ~> (pc = "completed" \/ ctx.gen = MaxRestarts)

\* C9: every Upgrade is answered once, with a sender of the channel the
\* supervisor's sync receiver reads, and what is sent through a sync handle
\* is queued in that channel and in no other.
C9_UpgradeSharesChannel ==
    /\ \A i \in 1..Len(applied) :
         applied[i].kind = "Upgrade" =>
           /\ applied[i].chan = sync_msgs
           /\ \A j \in 1..Len(applied) : applied[j].id = applied[i].id => j = i
    /\ \A c \in Chans \ {sync_msgs} : syncSenders[c] = 0 /\ sync_q[c] = <<>>

\* After a restart an Upgrade has been answered, a sender of the
\* supervisor's sync channel is alive and a message is queued in it.
C9_Witness ==
    /\ ctx.gen > 0
    /\ \E i \in 1..Len(applied) : applied[i].kind = "Upgrade"
    /\ syncSenders[sync_msgs] > 0
    /\ sync_q[sync_msgs] # <<>>

\* C10: with both mailboxes empty, ctx.poll() reporting still running and
\* the context not waiting, poll() applies nothing and returns NotReady at
\* the end of that pass.
C10_IdleSuspension ==
    [][(/\ pc = "sync" /\ not_ready /\ lastPoll = NotReady /\ ~ctx.waiting
        /\ unsync_q = <<>> /\ sync_q[sync_msgs] = <<>>
        /\ pc' # pc)
         => (pc' = "idle" /\ applied' = applied /\ ctx' = ctx)]_vars

\* A step of start_in up to the send of the closure, and its re-check.
StartInStep == caller = "init" /\ caller' # "init" /\ result' # "pair"
RecheckStep == caller = "recheck" /\ caller' = "done"

\* C11: start_in returns a handle exactly when the arbiter's address reports
\* connected at the first check and at the re-check; when the first check
\* fails it returns nothing, no sync sender exists and no closure is
\* scheduled.
C11_StartInReporting ==
    /\ [][/\ StartInStep /\ arbiter =>
               caller' = "recheck" /\ closure' = "scheduled" /\ result' = "none"
          /\ StartInStep /\ ~arbiter =>
               /\ caller' = "done" /\ result' = "nothing"
               /\ closure' = "none" /\ syncSenders' = syncSenders
               /\ pc' = "unborn"
          /\ RecheckStep => (result' = "some" <=> arbiter)]_vars
    /\ [](result = "some" => closure # "none")
    /\ [](result = "nothing" /\ closure = "none" =>
            pc = "unborn" /\ \A c \in Chans : syncSenders[c] = 0)

\* The first check passed, the closure was scheduled, and the re-check failed.
C11_Witness == result = "nothing" /\ closure # "none"

\* A step that takes the outcome of ctx.poll().
PollStep == pc = "poll" /\ pc' # "poll"

\* C12: a context that terminates with Ready and one that terminates with
\* Err cause the same transition from the same state (restart if a producer
\* is alive, completion otherwise), and poll() never leaves with an error:
\* it returns suspended or completed.
C12_FailureAbsorption ==
    /\ [](pc # "failed")
    /\ [][PollStep /\ lastPoll' \in Terminal =>
            IF AnyProducer
            THEN Restarts /\ pc' = "top"
            ELSE pc' = "completed" /\ ctx' = ctx]_vars

\* A context that ended with Err was restarted.
C12_Witness == pc = "top" /\ lastPoll = Err /\ ctx.gen > 0

\* C13: when ctx.poll() reports still-running and the context reports
\* waiting, poll() returns suspended in that step, and both mailboxes are
\* left as they were, whatever they hold.
C13_WaitingSuspends ==
    [][PollStep /\ lastPoll' = NotReady /\ ctx'.waiting =>
         /\ pc' = "idle"
         /\ unsync_q' = unsync_q /\ sync_q' = sync_q
         /\ applied' = applied]_vars

\* Suspended by a waiting context with messages in both mailboxes and
\* nothing ever applied.
C13_Witness ==
    /\ pc = "idle" /\ lastPoll = NotReady /\ ctx.waiting
    /\ applied = <<>>
    /\ unsync_q # <<>> /\ sync_q[sync_msgs] # <<>>

\* C14: after an item of either mailbox has been applied, a context that
\* reports not alive makes poll() pop no further item and start over at the
\* top of 'outer, and a context that reports waiting makes it return
\* suspended; the items still queued stay queued, in order.
C14_MidDrainInterruption ==
    [][/\ pc = "unsync" /\ Applies =>
            /\ unsync_q' = Tail(unsync_q) /\ sync_q' = sync_q
            /\ ~ctx'.alive => pc' = "top"
            /\ ctx'.alive /\ ctx'.waiting => pc' = "idle"
       /\ pc = "sync" /\ Applies =>
            /\ sync_q' = [sync_q EXCEPT ![sync_msgs] = Tail(@)]
            /\ unsync_q' = unsync_q
            /\ pc' = "sync"
       /\ pc = "sync" /\ (~ctx.alive \/ ctx.waiting) =>
            /\ ~Applies
            /\ pc' # pc =>
                 /\ pc' = IF ~ctx.alive THEN "top" ELSE "idle"
                 /\ unsync_q' = unsync_q /\ sync_q' = sync_q]_vars

\* An unsync item stopped the context: poll() is back at the top of 'outer
\* with the next unsync item still queued.
C14_Witness ==
    /\ pc = "top" /\ ~ctx.alive /\ lastPoll = NotReady
    /\ applied # <<>> /\ LastApplied.src = "unsync"
    /\ unsync_q # <<>>

\* C15: once connected() is false for a supervisor it is never true again,
\* also after the supervisor has answered a queued Upgrade with a sender
\* made from its own receiver.
C15_ConnectivityMonotone ==
    [][pc # "unborn" /\ ~connected => ~connected']_vars

\* C16: with finitely many messages queued, every call of poll() returns,
\* whatever the context does: also when it ends again at its first advance
\* after a restart, and when it reports not alive while ctx.poll() reports
\* still running.
C16_EveryResumptionEnds ==
    (pc \in {"top", "poll", "unsync", "sync"}) ~> (pc \in {"idle", "completed"})

\* No item has been applied since connected() was last evaluated: within a
\* pass of 'outer it is evaluated at the top only, and not_ready is cleared
\* by the first item of the pass.
CheckedSinceLastItem == not_ready

\* C17 (as claimed): connected() is evaluated at the top of every resumption
\* and after every applied message, before the next message is popped.
C17_CheckedAfterEveryMessage ==
    [][Applies => CheckedSinceLastItem]_vars

\* C17 (amended): connected() is evaluated, and stop requested if it is
\* false, at the top of every pass of 'outer: every resumption starts there,
\* ctx.poll() is reached only through it, and items are applied only in the
\* two loops that follow ctx.poll().
C17_CheckedEveryPass ==
    [][/\ pc = "idle" /\ pc' # pc => pc' = "top"
       /\ pc = "top" /\ pc' # pc =>
            /\ pc' = "poll"
            /\ ctx' = IF AnyProducer THEN ctx ELSE [ctx EXCEPT !.alive = FALSE]
       /\ pc' = "poll" /\ pc # "poll" => pc = "top"
       /\ Applies => pc \in {"unsync", "sync"}]_vars

\* The last handle was lost after an item of this pass was applied; the
\* context has not been stopped and the next sync item is about to be popped.
C17_Witness ==
    /\ pc = "sync" /\ ~CheckedSinceLastItem /\ ~AnyProducer
    /\ ctx.alive /\ ~ctx.waiting
    /\ sync_q[sync_msgs] # <<>>

\* The first ctx.poll() after a restart is about to be taken: lastPoll still
\* holds the terminal outcome that caused the restart.
FirstAdvance == pc = "poll" /\ lastPoll \in Terminal /\ ctx.gen > 0

\* C18 (as claimed): when a restart has just been performed and the new
\* context is waiting at once, poll() still attempts a pop on the unsync
\* mailbox before it suspends, the waiting test being made only after an
\* item.
C18_DrainBeforeSuspend ==
    [][FirstAdvance /\ PollStep /\ lastPoll' = NotReady /\ ctx'.waiting =>
         pc' = "unsync"]_vars

\* C18 (amended): when a restart has just been performed and the new
\* context reports still running and waiting at its first advance, poll()
\* returns suspended without a pop on either mailbox: the waiting test comes
\* before the first pop of the pass.
C18_SuspendBeforeDrain ==
    [][FirstAdvance /\ PollStep /\ lastPoll' = NotReady /\ ctx'.waiting =>
         /\ pc' = "idle"
         /\ unsync_q' = unsync_q /\ sync_q' = sync_q
         /\ applied' = applied /\ preU' = preU /\ preS' = preS]_vars

\* Suspended after a restart with a waiting context, the unsync items that
\* were queued at the restart still queued and nothing ever applied.
C18_Witness ==
    /\ pc = "idle" /\ ctx.gen > 0 /\ ctx.waiting /\ lastPoll = NotReady
    /\ applied = <<>>
    /\ unsync_q # <<>> /\ preU = Len(unsync_q)

\* C19: an item of either mailbox is popped and applied only while the
\* current context reports alive and not waiting; none is applied to a
\* context that reports not alive, nor to one that a restart has replaced.
C19_AppliedOnlyToLiveContext ==
    [][Applies /\ applied'[Len(applied')].kind = "Envelope" =>
         /\ ctx.alive /\ ~ctx.waiting
         /\ ctx'.gen = ctx.gen]_vars

\* start_in has returned None at its re-check and the closure it had sent
\* has run: a supervisor exists that no handle was ever returned for.
FailedStartIn == result = "nothing" /\ closure = "ran"

\* C20 (as claimed): the supervisor of a start_in that failed at the
\* re-check has no live producer, applies no message and never restarts.
C20_FailedStartInNeverRestarts ==
    FailedStartIn => ~AnyProducer /\ applied = <<>> /\ ctx.gen = 0

\* C20 (amended): the supervisor of such a start_in never applies a message;
\* once the failure has been reported it has no live producer, is stopped at
\* the top of every pass, does not restart, and completes at the first
\* terminal outcome of ctx.poll().  (Before the re-check the only sync sender
\* is still alive, and a supervisor polled then may restart.)
C20_InertOnceFailed ==
    /\ [](closure # "none" /\ result # "some" => applied = <<>>)
    /\ [](FailedStartIn => ~AnyProducer)
    /\ [][FailedStartIn =>
            /\ ~Restarts
            /\ pc = "top" /\ pc' # pc => ~ctx'.alive
            /\ PollStep /\ lastPoll' \in Terminal => pc' = "completed"]_vars

\* The supervisor of a failed start_in has completed.
C20_Witness == FailedStartIn /\ pc = "completed"

====
